---- MODULE Spec2Model ----
(***************************************************************************)
(* The overflow victims of control-flow-experiments: step1_overflow.c, the *)
(* coroutine victim step3_coroutine_overflow.cpp and the step-0 victim,    *)
(* together with the payload that the exploit feeds to their stdin.        *)
(*                                                                         *)
(* Memory is modelled from the base of Frame.buf upwards: mem[i] is the    *)
(* byte at buf + (i - 1).  A pointer is the sequence of its PtrSize bytes  *)
(* in memory order (little-endian, x86-64).                                *)
(***************************************************************************)
EXTENDS Integers, Sequences, FiniteSets, TLC

\* ---------------------------------------------------------------- constants

\* char buf[32]
BufLen == 32
\* the length argument of fread(frame.buf, 1, 200, stdin)
ReadLen == 200
\* sizeof(void (*)(const char *)) on the demonstrated target (struct.pack('<Q'))
PtrSize == 8
\* the filler byte 'A'
FillByte == 65
\* a byte whose value is indeterminate: storage nobody initialised
Uninit == -1

\* ------------------------------------------------------------------- bounds

\* filler lengths tried around the slot offset: BufLen - Slack .. BufLen + Slack
Slack == 1
\* how many bytes past a boundary (the Frame, the read length) a trail goes
MaxPast == 1

\* ------------------------------------------------------------------ helpers

Min(a, b) == IF a < b THEN a ELSE b

\* the first n elements of s (all of s when it is shorter)
Take(s, n) == SubSeq(s, 1, Min(n, Len(s)))

RECURSIVE LEBytes(_, _)
\* the w low-order bytes of v, least significant first
LEBytes(v, w) == IF w = 0 THEN << >> ELSE <<v % 256>> \o LEBytes(v \div 256, w - 1)

\* the same bytes, most significant first
BEBytes(v, w) == [i \in 1..w |-> LEBytes(v, w)[w + 1 - i]]

\* ------------------------------------------------------------ the programs

Progs == {"step0", "step1", "step3"}

\* the function each victim assigns to its slot at startup
Legit(p) ==
    CASE p = "step0" -> "check_password"
      [] p = "step1" -> "safe"
      [] p = "step3" -> "safe_resume"

\* the functions whose address a victim takes
Funcs(p) == {Legit(p), "win"}

\* the declared type of the slot: void (*)(const char *)
SlotSig == "void(const char*)"

\* mutant: win of step0 declared like the slot
SigOfUniform(p, f) == "void(const char*)"
\* the declared type of function f of victim p
SigOf(p, f) == IF p = "step0" /\ f = "win" THEN "void(void)" ELSE "void(const char*)"

\* link-time address of each function (-no-pie: fixed, below 2^31)
AddrOf(f) ==
    CASE f = "safe" -> 4198774
      [] f = "safe_resume" -> 4198838
      [] f = "check_password" -> 4198806
      [] f = "win" -> 4198870

\* a pointer value as it lies in memory
PtrTo(a) == LEBytes(a, PtrSize)

\* (char *)0
Null == PtrTo(0)
\* the string literal "echo SAFE"
DefaultCmd == PtrTo(4202512)
\* argv[1], a string on the initial stack (0x7ffd_ffff_e63a)
Argv1 == <<58, 230, 255, 255, 253, 127, 0, 0>>
\* a pointer whose bytes are indeterminate
Indeterminate == [i \in 1..PtrSize |-> Uninit]

\* ((n + a - 1) / a) * a: the next multiple of a, natural alignment
AlignUp(n, a) == ((n + a - 1) \div a) * a
\* mutant: the slot laid over the last bytes of buf
SlotOffShort == AlignUp(BufLen - PtrSize, PtrSize)
\* offsetof(Frame, fn | resume | auth)
SlotOff == AlignUp(BufLen, PtrSize)
\* mutant: padding between resume and cmd
CmdOffPadded == SlotOff + PtrSize + PtrSize
\* offsetof(Frame, cmd), coroutine victim only
CmdOff == AlignUp(SlotOff + PtrSize, PtrSize)
\* sizeof(struct Frame)
FrameSize(p) == IF p = "step3" THEN CmdOff + PtrSize ELSE SlotOff + PtrSize
\* the part of memory the model holds: everything one read can reach
MemSize == ReadLen

\* the pointer stored at byte offset off of m
LoadPtr(m, off) == SubSeq(m, off + 1, off + PtrSize)
\* m with pointer v stored at byte offset off
StorePtr(m, off, v) ==
    [i \in 1..Len(m) |-> IF off < i /\ i <= off + PtrSize THEN v[i - off] ELSE m[i]]

\* mutant: the read asks for sizeof buf bytes
FreadCountChecked(input) == Min(Len(input), BufLen)
\* fread(buf, 1, ReadLen, stdin) with `input` waiting on stdin: the number
\* of bytes transferred
FreadCount(input) == Min(Len(input), ReadLen)
\* mutant: the copy stops at the end of buf
FreadMemChecked(m, input) ==
    [i \in 1..Len(m) |->
        IF i <= Min(FreadCount(input), BufLen) THEN input[i] ELSE m[i]]
\* ... and memory after it: the bytes go to buf[0], buf[1], ... with no
\* regard to sizeof buf
FreadMem(m, input) ==
    [i \in 1..Len(m) |-> IF i <= FreadCount(input) THEN input[i] ELSE m[i]]

\* the function of victim p that starts at the address held in pointer v
FnAt(p, v) ==
    IF \E f \in Funcs(p) : PtrTo(AddrOf(f)) = v
    THEN CHOOSE f \in Funcs(p) : PtrTo(AddrOf(f)) = v
    ELSE "none"

\* mutant: the check admits only the function the program assigned
CfiExactTarget(p, v) == PtrTo(AddrOf(Legit(p))) = v
\* the function-signature check of -fsanitize=cfi-icall: the target must be
\* a function of the slot's declared type
CfiAllows(p, v) ==
    \E f \in Funcs(p) : PtrTo(AddrOf(f)) = v /\ SigOf(p, f) = SlotSig

\* ---------------------------------------------------- the payload generator

\* mutant: struct.pack('>Q' | '>I', addr)
PackBE(addr, width) == BEBytes(addr, width)
\* struct.pack('<Q' | '<I', addr)
PackLE(addr, width) == LEBytes(addr, width)
\* b'A' * offset
Fill(offset) == [i \in 1..offset |-> FillByte]
\* filler up to the slot, then the target address
GenPayload(offset, addr, width) == Fill(offset) \o PackLE(addr, width)

\* a pointer to a string of the attacker's choosing
AtkCmd == PtrTo(4210752)
\* t bytes that follow the address: a replacement cmd pointer, then filler
Trail(t) == [i \in 1..t |-> IF i <= PtrSize THEN AtkCmd[i] ELSE FillByte]

Offsets == {0} \cup ((BufLen - Slack)..(BufLen + Slack))
Widths == {4, 8}
\* the address the README's one-liner packs: no function lives there
BogusAddr == 305419896
Targets(p) == {AddrOf(f) : f \in Funcs(p)} \cup {BogusAddr}
TrailLens ==
    {0, MaxPast, PtrSize, PtrSize + MaxPast,
     ReadLen - SlotOff - PtrSize, ReadLen - SlotOff - PtrSize + MaxPast}
\* bytes dropped from the end of a payload that arrives short
Cuts(w) == {0, 1, w}

\* ----------------------------------------------------------------- state

VARIABLES
    prog,       \* which victim runs
    cfi,        \* built with -fsanitize=cfi
    argc,       \* 1 or 2
    argv1,      \* the string argv[1] points to, when argc is 2
    tty,        \* stdout is a terminal (line buffered) rather than a pipe
    atk,        \* what the exploit script was given
    generated,  \* the byte sequence the payload generator emitted
    stdin,      \* bytes waiting on the victim's standard input
    supplied,   \* the script has written its payload and closed the pipe
    mem,        \* memory from frame.buf upwards
    cmd,        \* step1: the local variable cmd
    pc,         \* where main (or the running coroutine) stands
    obuf,       \* stdout's stdio buffer
    out,        \* what has reached file descriptor 1
    nread,      \* the last fread's return value
    reads,      \* freads into the Frame so far
    inits,      \* assignments to the slot by the program so far
    calls,      \* calls through the slot so far
    slotAtCall, \* the pointer the call loaded
    callArg,    \* the argument the call passed
    executed,   \* the functions entered through or below the call, in order
    outcome,    \* how the call through the slot ended
    exit,       \* process status: "running", "0", "abort", "fault"
    coro,       \* step3: the state of the coroutine frames of c1, c2, c3
    continuation, \* step3: promise().continuation of each (0: null handle)
    destroyed   \* step3: how often each coroutine frame was destroyed

\* the modem demo (esp_modem_rtsan.cpp)
VARIABLES
    driver,        \* who calls the DTE: "main", "task" (any caller), "none"
    instrumented,  \* built with -fsanitize=realtime
    halt_on_error, \* RTSAN_OPTIONS halt_on_error
    stack,         \* the call stack, outermost function first
    rt_pc,         \* where the innermost function stands
    resume,        \* where the caller of the DTE goes on after the call
    g_dte,         \* "nullptr" or "dte"
    g_cached_rssi, \* std::atomic<int>
    g_cached_ber,  \* std::atomic<int>
    locals,        \* main's rssi, ber, imsi and r
    cb,            \* rt_timer_callback_unsafe's rssi and ber
    seen,          \* rt_timer_callback_safe's rssi and ber
    request,       \* command()'s arguments cmd and got_line
    response,      \* command()'s local response
    result,        \* what the last command() returned
    results,       \* all command() results so far, in order
    internal_lock_, \* the recursive mutex: times held, lock() and unlock() calls so far
    mallocs,       \* heap allocations so far
    frees,         \* heap releases so far
    diag,          \* the checker's diagnostics, in order
    rt_out,        \* lines printed by main
    rt_exit,       \* process status: "running", "0", "43"
    ncalls         \* DTE calls issued by the task so far

victim == <<prog, cfi, argc, argv1, tty, atk, generated, stdin, supplied, mem, cmd, pc, obuf,
            out, nread, reads, inits, calls, slotAtCall, callArg, executed, outcome,
            exit, coro, continuation, destroyed>>

build == <<driver, instrumented, halt_on_error>>
atomics == <<g_cached_rssi, g_cached_ber>>
frames == <<locals, cb, seen>>
lock == <<internal_lock_>>
heap == <<mallocs, frees>>
call == <<request, response, result, results>>

modem == <<build, stack, rt_pc, resume, g_dte, atomics, frames, call, lock, heap, diag,
           rt_out, rt_exit, ncalls>>

vars == <<victim, modem>>

env == <<prog, cfi, argc, argv1, tty, atk, generated>>
chain == <<coro, continuation, destroyed>>
io == <<obuf, out>>
callvars == <<calls, slotAtCall, callArg, executed, outcome>>

\* the modem demo before main's first statement
ModemStart ==
    /\ stack = << >>
    /\ rt_pc = "start"
    /\ resume = "none"
    /\ g_dte = "nullptr"
    /\ g_cached_rssi = 0
    /\ g_cached_ber = 0
    /\ locals = [rssi |-> 0, ber |-> 0, imsi |-> << >>, r |-> "none"]
    /\ cb = [rssi |-> 0, ber |-> 0]
    /\ seen = [rssi |-> 0, ber |-> 0]
    /\ request = [cmd |-> << >>, got_line |-> "empty"]
    /\ response = << >>
    /\ result = "none"
    /\ results = << >>
    /\ internal_lock_ = [held |-> 0, locks |-> 0, unlocks |-> 0]
    /\ mallocs = 0
    /\ frees = 0
    /\ diag = << >>
    /\ rt_out = << >>
    /\ rt_exit = "running"
    /\ ncalls = 0

\* the line "win() @ 0x..." carries the address of win
WinLine == [text |-> "win() @", addr |-> AddrOf("win")]
Line(t) == [text |-> t, addr |-> 0]

Init ==
    /\ prog \in Progs
    /\ cfi \in BOOLEAN
    /\ \/ argc = 1 /\ argv1 = ""
       \/ argc = 2 /\ argv1 = "echo TEST"
       \/ argc = 2 /\ argv1 = "mypassword" /\ prog = "step0"
    /\ tty \in BOOLEAN
    /\ \E o \in Offsets, w \in Widths, t \in TrailLens :
         \E a \in Targets(prog), c \in Cuts(w) :
            /\ (c = 0 \/ t = 0)
            /\ atk = [offset |-> o, addr |-> a, width |-> w, trail |-> t, cut |-> c]
    /\ generated = << >>
    /\ stdin = << >>
    /\ supplied = FALSE
    /\ mem = [i \in 1..MemSize |-> Uninit]
    /\ cmd = Indeterminate
    /\ pc = "init"
    /\ obuf = << >>
    /\ out = << >>
    /\ nread = 0
    /\ reads = 0
    /\ inits = 0
    /\ calls = 0
    /\ slotAtCall = Indeterminate
    /\ callArg = Indeterminate
    /\ executed = << >>
    /\ outcome = "none"
    /\ exit = "running"
    /\ coro = [h \in 1..3 |-> "absent"]
    /\ continuation = [h \in 1..3 |-> 0]
    /\ destroyed = [h \in 1..3 |-> 0]
    /\ driver = "none" /\ instrumented = FALSE /\ halt_on_error = TRUE
    /\ ModemStart

\* ------------------------------------------------------------ the exploit

\* what reaches the victim's stdin of generator output g: all of it and a
\* trail, or g cut short
Arriving(g, a) == Take(g, Len(g) - a.cut) \o Trail(a.trail)

\* the bytes the exploit configured by a puts on the victim's stdin
Payload(a) == Arriving(GenPayload(a.offset, a.addr, a.width), a)

\* The exploit script builds its payload, writes it and closes the pipe.
Generate ==
    /\ ~supplied
    /\ exit = "running"
    /\ generated' = GenPayload(atk.offset, atk.addr, atk.width)
    /\ stdin' = Arriving(generated', atk)
    /\ supplied' = TRUE
    /\ UNCHANGED <<prog, cfi, argc, argv1, tty, atk, mem, cmd, pc, io, nread, reads, inits,
                   callvars, exit, chain, modem>>

\* ------------------------------------------------------------------ stdio

\* printf of a line ending in \n: a terminal's stdout is line buffered
PrintfOut(line) == IF tty THEN out \o obuf \o <<line>> ELSE out
PrintfBuf(line) == IF tty THEN << >> ELSE obuf \o <<line>>
\* fflush(stdout), std::endl, and exit()'s flush
FlushOut(pending) == out \o pending

\* ------------------------------------------------- the call through the slot

\* mutant: the check's verdict is not acted on
CalleeUnchecked(p, c, v) == FnAt(p, v)
\* Where the indirect call transfers control: a function of the victim,
\* "none" for an address where no function starts, or "abort" when the
\* signature check of a CFI build rejects the target before the transfer.
Callee(p, c, v) == IF c /\ ~CfiAllows(p, v) THEN "abort" ELSE FnAt(p, v)

\* The outcome classes of the call, read off where control went.
Outcome(p, callee) ==
    CASE callee = "abort" -> "blocked"
      [] callee = "none" -> "wild"
      [] callee = Legit(p) -> "intended"
      [] OTHER -> IF SigOf(p, callee) = SlotSig THEN "unintended" ELSE "mismatched"

\* the check fails: the process is aborted before the transfer
Blocked ==
    /\ exit' = "abort" /\ pc' = "done"
    /\ UNCHANGED <<executed, obuf, out>>

\* control goes to an address where no function starts: the process dies
\* of a fault or, should it stray into code that returns, runs on to exit
WildJump ==
    \E e \in {"fault", "0"} :
        /\ exit' = e /\ pc' = "done"
        /\ out' = IF e = "0" THEN out \o obuf ELSE out
        /\ obuf' = IF e = "0" THEN << >> ELSE obuf
        /\ UNCHANGED executed

\* the read went past the end of the Frame object: whatever lies behind it
\* (other locals and the return address on the stack, the next chunks on
\* the heap) has been overwritten
Clobbered == reads > 0 /\ nread > FrameSize(prog)

\* ----------------------------------------------------------------- step1

\* mutant: the argument is ignored
CmdInitDefault(n) == DefaultCmd
\* const char *cmd = (argc > 1) ? argv[1] : "echo SAFE";
CmdInit(n) == IF n > 1 THEN Argv1 ELSE DefaultCmd

\* struct Frame frame; cmd = ...; frame.fn = safe;
Step1_Init ==
    /\ prog = "step1" /\ pc = "init"
    /\ cmd' = CmdInit(argc)
    /\ mem' = StorePtr(mem, SlotOff, PtrTo(AddrOf("safe")))
    /\ inits' = inits + 1
    /\ pc' = "print"
    /\ UNCHANGED <<env, modem, stdin, supplied, io, nread, reads, callvars, exit, chain>>

\* printf("win() @ 0x%lx\n", win); fflush(stdout);
Step1_Print ==
    /\ prog = "step1" /\ pc = "print"
    /\ out' = FlushOut(obuf \o <<WinLine>>)
    /\ obuf' = << >>
    /\ pc' = "read"
    /\ UNCHANGED <<env, modem, stdin, supplied, mem, cmd, nread, reads, inits, callvars, exit, chain>>

\* fread(frame.buf, 1, 200, stdin): returns at 200 bytes or at end of input
Step1_Read ==
    /\ prog = "step1" /\ pc = "read"
    /\ supplied
    /\ mem' = FreadMem(mem, stdin)
    /\ nread' = FreadCount(stdin)
    /\ stdin' = SubSeq(stdin, FreadCount(stdin) + 1, Len(stdin))
    /\ reads' = reads + 1
    /\ pc' = "call"
    /\ UNCHANGED <<env, modem, supplied, cmd, io, inits, callvars, exit, chain>>

\* frame.fn(cmd), with safe and win inlined
Step1_Call ==
    /\ prog = "step1" /\ pc = "call"
    /\ LET v == LoadPtr(mem, SlotOff)
           callee == Callee(prog, cfi, v)
       IN  /\ calls' = calls + 1
           /\ slotAtCall' = v
           /\ outcome' = Outcome(prog, callee)
           \* cmd is a local of main: intact unless the read left the Frame
           /\ callArg' \in (IF Clobbered THEN {cmd, Indeterminate} ELSE {cmd})
           /\ CASE callee = "abort" -> Blocked
                [] callee = "none" -> WildJump
                [] callee = "safe" ->
                    \* printf("safe path: %s\n", cmd)
                    /\ executed' = <<"safe">>
                    /\ out' = PrintfOut(Line("safe path"))
                    /\ obuf' = PrintfBuf(Line("safe path"))
                    /\ pc' = "ret"
                    /\ UNCHANGED exit
                [] callee = "win" ->
                    \* system(cmd)
                    /\ executed' = <<"win">>
                    /\ pc' = "ret"
                    /\ UNCHANGED <<exit, io>>
    /\ UNCHANGED <<env, modem, stdin, supplied, mem, cmd, nread, reads, inits, chain>>

\* return 0: exit() flushes stdout
Step1_Return ==
    /\ prog = "step1" /\ pc = "ret"
    /\ out' = FlushOut(obuf)
    /\ obuf' = << >>
    /\ exit' = "0"
    /\ pc' = "done"
    /\ UNCHANGED <<env, modem, stdin, supplied, mem, cmd, nread, reads, inits, callvars, chain>>

\* ----------------------------------------------------------------- step0

\* struct Frame frame; frame.auth = check_password;
Step0_Init ==
    /\ prog = "step0" /\ pc = "init"
    /\ mem' = StorePtr(mem, SlotOff, PtrTo(AddrOf("check_password")))
    /\ inits' = inits + 1
    /\ pc' = "print"
    /\ UNCHANGED <<env, modem, stdin, supplied, cmd, io, nread, reads, callvars, exit, chain>>

\* printf("win() @ 0x%lx\n", win); and no fflush
Step0_Print ==
    /\ prog = "step0" /\ pc = "print"
    /\ out' = PrintfOut(WinLine)
    /\ obuf' = PrintfBuf(WinLine)
    /\ pc' = "read"
    /\ UNCHANGED <<env, modem, stdin, supplied, mem, cmd, nread, reads, inits, callvars, exit, chain>>

\* fread(frame.buf, 1, 200, stdin)
Step0_Read ==
    /\ prog = "step0" /\ pc = "read"
    /\ supplied
    /\ mem' = FreadMem(mem, stdin)
    /\ nread' = FreadCount(stdin)
    /\ stdin' = SubSeq(stdin, FreadCount(stdin) + 1, Len(stdin))
    /\ reads' = reads + 1
    /\ pc' = "call"
    /\ UNCHANGED <<env, modem, supplied, cmd, io, inits, callvars, exit, chain>>

\* argv[1]: argv[argc] is a null pointer
ArgvOne(n) == IF n > 1 THEN Argv1 ELSE Null

\* frame.auth(argv[1]), with check_password and win inlined
Step0_Call ==
    /\ prog = "step0" /\ pc = "call"
    /\ LET v == LoadPtr(mem, SlotOff)
           callee == Callee(prog, cfi, v)
       IN  /\ calls' = calls + 1
           /\ slotAtCall' = v
           /\ outcome' = Outcome(prog, callee)
           /\ callArg' \in (IF Clobbered THEN {ArgvOne(argc), Indeterminate}
                                         ELSE {ArgvOne(argc)})
           /\ CASE callee = "abort" -> Blocked
                [] callee = "none" -> WildJump
                [] callee = "check_password" ->
                    IF callArg' = Argv1
                    THEN IF argv1 = "mypassword"
                         THEN \* strcmp(...) == 0: win(); return;
                              /\ executed' = <<"check_password", "win">>
                              /\ out' = PrintfOut(Line("AUTHENTICATED..."))
                              /\ obuf' = PrintfBuf(Line("AUTHENTICATED..."))
                              /\ pc' = "ret"
                              /\ UNCHANGED exit
                         ELSE /\ executed' = <<"check_password">>
                              /\ out' = PrintfOut(Line("WRONG PASSWORD"))
                              /\ obuf' = PrintfBuf(Line("WRONG PASSWORD"))
                              /\ pc' = "ret"
                              /\ UNCHANGED exit
                    ELSE \* strcmp reads through a pointer that is no string
                         /\ executed' = <<"check_password">>
                         /\ \/ /\ exit' = "fault" /\ pc' = "done"
                               /\ UNCHANGED io
                            \/ /\ out' = PrintfOut(Line("WRONG PASSWORD"))
                               /\ obuf' = PrintfBuf(Line("WRONG PASSWORD"))
                               /\ pc' = "ret"
                               /\ UNCHANGED exit
                [] callee = "win" ->
                    \* printf("AUTHENTICATED...\n")
                    /\ executed' = <<"win">>
                    /\ out' = PrintfOut(Line("AUTHENTICATED..."))
                    /\ obuf' = PrintfBuf(Line("AUTHENTICATED..."))
                    /\ pc' = "ret"
                    /\ UNCHANGED exit
    /\ UNCHANGED <<env, modem, stdin, supplied, mem, cmd, nread, reads, inits, chain>>

\* return 0
Step0_Return ==
    /\ prog = "step0" /\ pc = "ret"
    /\ out' = FlushOut(obuf)
    /\ obuf' = << >>
    /\ exit' = "0"
    /\ pc' = "done"
    /\ UNCHANGED <<env, modem, stdin, supplied, mem, cmd, nread, reads, inits, callvars, chain>>

\* ----------------------------------------------------------------- step3

\* mutant: await_suspend returns the awaiting coroutine, not the child
AwaiterSuspendSelf(coro_, awaiting) == [continuation |-> awaiting, next |-> awaiting]
\* task::awaiter::await_suspend: stores the awaiting coroutine in the
\* child's promise and hands control to the child
AwaiterSuspend(coro_, awaiting) == [continuation |-> awaiting, next |-> coro_]

\* final_awaiter::await_suspend: the continuation if there is one, else
\* std::noop_coroutine() (0: control returns to whoever called resume())
FinalSuspend(cont) == IF cont # 0 THEN cont ELSE 0

\* where coroutine h goes on when it is resumed (0: main, after start())
ResumePoint(h, state) ==
    CASE h = 0 -> "call"
      [] h = 1 -> IF state = "suspended" THEN "c1_body" ELSE "c1_resume"
      [] h = 2 -> IF state = "suspended" THEN "c2_body" ELSE "c2_resume"
      [] h = 3 -> IF state = "suspended" THEN "c3_body" ELSE "c3_final"

\* frame = malloc(sizeof(Frame)); frame->resume = safe_resume; frame->cmd = ...
Step3_Init ==
    /\ prog = "step3" /\ pc = "init"
    /\ mem' = StorePtr(StorePtr(mem, SlotOff, PtrTo(AddrOf("safe_resume"))),
                       CmdOff, CmdInit(argc))
    /\ inits' = inits + 1
    /\ pc' = "print"
    /\ UNCHANGED <<env, modem, stdin, supplied, cmd, io, nread, reads, callvars, exit, chain>>

\* std::cout << "win() @ 0x" << std::hex << win_addr << std::dec << std::endl;
Step3_Print ==
    /\ prog = "step3" /\ pc = "print"
    /\ out' = FlushOut(obuf \o <<WinLine>>)
    /\ obuf' = << >>
    /\ pc' = "create"
    /\ UNCHANGED <<env, modem, stdin, supplied, mem, cmd, nread, reads, inits, callvars, exit, chain>>

\* task chain = c1(frame): the coroutine frame is made and suspends at
\* initial_suspend (std::suspend_always)
Step3_Create ==
    /\ prog = "step3" /\ pc = "create"
    /\ coro' = [coro EXCEPT ![1] = "suspended"]
    /\ pc' = "start"
    /\ UNCHANGED <<env, modem, stdin, supplied, mem, cmd, io, nread, reads, inits, callvars,
                   exit, continuation, destroyed>>

\* chain.start(): coro_.resume()
Step3_Start ==
    /\ prog = "step3" /\ pc = "start"
    /\ pc' = ResumePoint(1, coro[1])
    /\ coro' = [coro EXCEPT ![1] = "running"]
    /\ UNCHANGED <<env, modem, stdin, supplied, mem, cmd, io, nread, reads, inits, callvars,
                   exit, continuation, destroyed>>

\* coroutine `parent` evaluates co_await child(frame): the child's frame is
\* made suspended, await_suspend runs, control goes where it says
Await(parent, child) ==
    LET made == [coro EXCEPT ![child] = "suspended", ![parent] = "awaiting"]
        a == AwaiterSuspend(child, parent)
    IN  /\ continuation' = [continuation EXCEPT ![child] = a.continuation]
        /\ pc' = ResumePoint(a.next, made[a.next])
        /\ coro' = [made EXCEPT ![a.next] = "running"]

\* coroutine h reaches co_return: final_suspend decides who runs next
Final(h) ==
    LET next == FinalSuspend(continuation[h])
        done == [coro EXCEPT ![h] = "final"]
    IN  /\ pc' = ResumePoint(next, IF next = 0 THEN "" ELSE done[next])
        /\ coro' = IF next = 0 THEN done ELSE [done EXCEPT ![next] = "running"]

\* c1: co_await c2(frame);
C1_Body ==
    /\ prog = "step3" /\ pc = "c1_body"
    /\ Await(1, 2)
    /\ UNCHANGED <<env, modem, stdin, supplied, mem, cmd, io, nread, reads, inits, callvars,
                   exit, destroyed>>

\* c2: co_await c3(frame);
C2_Body ==
    /\ prog = "step3" /\ pc = "c2_body"
    /\ Await(2, 3)
    /\ UNCHANGED <<env, modem, stdin, supplied, mem, cmd, io, nread, reads, inits, callvars,
                   exit, destroyed>>

\* c3: std::cout << "c3(): enter input" << std::endl; std::fread(frame->buf, 1, 200, stdin);
C3_Body ==
    /\ prog = "step3" /\ pc = "c3_body"
    /\ supplied
    /\ out' = FlushOut(obuf \o <<Line("c3(): enter input")>>)
    /\ obuf' = << >>
    /\ mem' = FreadMem(mem, stdin)
    /\ nread' = FreadCount(stdin)
    /\ stdin' = SubSeq(stdin, FreadCount(stdin) + 1, Len(stdin))
    /\ reads' = reads + 1
    /\ pc' = "c3_final"
    /\ UNCHANGED <<env, modem, supplied, cmd, inits, callvars, exit, chain>>

\* c3: co_return;
C3_Final ==
    /\ prog = "step3" /\ pc = "c3_final"
    /\ Final(3)
    /\ UNCHANGED <<env, modem, stdin, supplied, mem, cmd, io, nread, reads, inits, callvars,
                   exit, continuation, destroyed>>

\* mutant: ~task destroys nothing
TaskDtorLeak(d, coro_) == d
\* ~task: if (coro_) coro_.destroy(); d counts the destructions, a null
\* handle (a moved-from task) is 0
TaskDtor(d, coro_) == IF coro_ # 0 THEN [d EXCEPT ![coro_] = @ + 1] ELSE d

\* the temporary task of co_await child(frame) dies at the end of the
\* statement: ~task destroys the child's frame; then co_return
AfterAwait(h, child) ==
    LET next == FinalSuspend(continuation[h])
        done == [coro EXCEPT ![child] = "destroyed", ![h] = "final"]
    IN  /\ destroyed' = TaskDtor(destroyed, child)
        /\ pc' = ResumePoint(next, IF next = 0 THEN "" ELSE done[next])
        /\ coro' = IF next = 0 THEN done ELSE [done EXCEPT ![next] = "running"]

\* c2 after c3 finished: co_return;
C2_Resume ==
    /\ prog = "step3" /\ pc = "c2_resume"
    /\ AfterAwait(2, 3)
    /\ UNCHANGED <<env, modem, stdin, supplied, mem, cmd, io, nread, reads, inits, callvars,
                   exit, continuation>>

\* c1 after c2 finished: co_return;
C1_Resume ==
    /\ prog = "step3" /\ pc = "c1_resume"
    /\ AfterAwait(1, 2)
    /\ UNCHANGED <<env, modem, stdin, supplied, mem, cmd, io, nread, reads, inits, callvars,
                   exit, continuation>>

\* mutant: the argument is the value main stored before the read
ResumeArgSaved(m) == CmdInit(argc)
\* frame->cmd, loaded when the call is made
ResumeArg(m) == LoadPtr(m, CmdOff)

\* frame->resume(frame->cmd), with safe_resume and win inlined
Step3_Call ==
    /\ prog = "step3" /\ pc = "call"
    /\ LET v == LoadPtr(mem, SlotOff)
           callee == Callee(prog, cfi, v)
       IN  /\ calls' = calls + 1
           /\ slotAtCall' = v
           /\ outcome' = Outcome(prog, callee)
           /\ callArg' = ResumeArg(mem)
           /\ CASE callee = "abort" -> Blocked
                [] callee = "none" -> WildJump
                [] callee = "safe_resume" ->
                    \* std::cout << "safe resume: " << cmd << std::endl;
                    /\ executed' = <<"safe_resume">>
                    /\ out' = FlushOut(obuf \o <<Line("safe resume")>>)
                    /\ obuf' = << >>
                    /\ pc' = "free"
                    /\ UNCHANGED exit
                [] callee = "win" ->
                    \* std::system(cmd)
                    /\ executed' = <<"win">>
                    /\ pc' = "free"
                    /\ UNCHANGED <<exit, io>>
    /\ UNCHANGED <<env, modem, stdin, supplied, mem, cmd, nread, reads, inits, chain>>

\* std::free(frame)
Step3_Free ==
    /\ prog = "step3" /\ pc = "free"
    /\ pc' = "ret"
    /\ UNCHANGED <<env, modem, stdin, supplied, mem, cmd, io, nread, reads, inits, callvars,
                   exit, chain>>

\* return 0: ~task of chain destroys the frame of c1, exit() flushes
Step3_Return ==
    /\ prog = "step3" /\ pc = "ret"
    /\ destroyed' = TaskDtor(destroyed, 1)
    /\ coro' = [coro EXCEPT ![1] = "destroyed"]
    /\ out' = FlushOut(obuf)
    /\ obuf' = << >>
    /\ exit' = "0"
    /\ pc' = "done"
    /\ UNCHANGED <<env, modem, stdin, supplied, mem, cmd, nread, reads, inits, callvars,
                   continuation>>

\* ------------------------------------------------------------------ faults

\* the points at which a victim uses what lies behind its Frame
FaultPoints(p) ==
    CASE p = "step1" -> {"ret"}
      [] p = "step0" -> {"ret"}
      [] p = "step3" -> {"c3_final", "c2_resume", "c1_resume", "free", "ret"}

\* The victim uses memory that the read overwrote behind the Frame (a
\* return address, a coroutine frame, a heap chunk header) and dies.
UBFault ==
    /\ Clobbered
    /\ pc \in FaultPoints(prog)
    /\ exit' = "fault"
    /\ pc' = "done"
    /\ UNCHANGED <<env, modem, stdin, supplied, mem, cmd, io, nread, reads, inits, callvars, chain>>

Next ==
    \/ Generate
    \/ Step1_Init \/ Step1_Print \/ Step1_Read \/ Step1_Call \/ Step1_Return
    \/ Step0_Init \/ Step0_Print \/ Step0_Read \/ Step0_Call \/ Step0_Return
    \/ Step3_Init \/ Step3_Print \/ Step3_Create \/ Step3_Start
    \/ C1_Body \/ C2_Body \/ C3_Body \/ C3_Final \/ C2_Resume \/ C1_Resume
    \/ Step3_Call \/ Step3_Free \/ Step3_Return
    \/ UBFault

Spec == Init /\ [][Next]_vars

\* ---------------------------------------------------- the modem demo: data

\* Strings are sequences of tokens; "<CR>" is \r and "<CRLF>" is \r\n.
\* s.find(t) != npos
Find(s, t) == \E i \in 1..Len(s) : s[i] = t

\* SimModem::process
Process(c) ==
    IF Find(c, "AT+CSQ") THEN <<"+CSQ: ", "18", ",", "99", "<CRLF>", "OK", "<CRLF>">>
    ELSE IF Find(c, "AT+CIMI") THEN <<"310260000000000", "<CRLF>", "OK", "<CRLF>">>
    ELSE IF Find(c, "AT+CGSN") THEN <<"860000000000000", "<CRLF>", "OK", "<CRLF>">>
    ELSE <<"<CRLF>", "OK", "<CRLF>">>

\* the numerals the modem sends
Numerals == {"18", "99"}
\* %d
Atoi(t) == CASE t = "18" -> 18 [] t = "99" -> 99 [] OTHER -> 0

\* sscanf(line.data(), "+CSQ: %d,%d", &rssi, &ber): what it assigns, given
\* the previous values of rssi and ber
Sscanf(line, old) ==
    IF Len(line) >= 2 /\ line[1] = "+CSQ: " /\ line[2] \in Numerals
    THEN IF Len(line) >= 4 /\ line[3] = "," /\ line[4] \in Numerals
         THEN [rssi |-> Atoi(line[2]), ber |-> Atoi(line[4])]
         ELSE [rssi |-> Atoi(line[2]), ber |-> old.ber]
    ELSE [rssi |-> old.rssi, ber |-> old.ber]

\* response.find("\r\nOK"): the index, or 0 for npos
FindCrlfOk(s) ==
    LET hits == {i \in 1..(Len(s) - 1) : s[i] = "<CRLF>" /\ s[i + 1] = "OK"}
    IN  IF hits = {} THEN 0 ELSE CHOOSE i \in hits : \A j \in hits : i <= j

\* generic_get_string's lambda: the string stored in out
Extract(s) == IF FindCrlfOk(s) # 0 THEN SubSeq(s, 1, FindCrlfOk(s) - 1) ELSE s

\* the three lambdas passed as got_line, and command()'s return when
\* got_line is empty
GotLine(kind, resp) ==
    IF kind = "empty" THEN "TIMEOUT"
    ELSE IF Find(resp, "OK") THEN "OK"
    ELSE IF Find(resp, "ERROR") THEN "FAIL"
    ELSE "TIMEOUT"

\* what the lambda stores through its captured references: v holds the
\* caller's rssi, ber and imsi
Captured(kind, resp, v) ==
    CASE kind = "generic_command_with_parse" /\ Find(resp, "OK") ->
            [v EXCEPT !.rssi = Sscanf(resp, v).rssi, !.ber = Sscanf(resp, v).ber]
      [] kind = "generic_get_string" /\ Find(resp, "OK") ->
            [v EXCEPT !.imsi = Extract(resp)]
      [] OTHER -> v

\* ------------------------------------------------- the modem demo: checker

\* [[clang::nonblocking]]
Nonblocking(f) == f \in {"rt_timer_callback_safe", "rt_timer_callback_unsafe"}

\* mutant: command() carries no attribute
BlockingNone(f) == FALSE
\* [[clang::blocking]]
Blocking(f) == f = "command"

\* mutant: free is not intercepted
InterceptedNoFree(prim) == prim \in {"pthread_mutex_lock", "malloc", "pthread_mutex_unlock"}
\* the library calls of command() that the checker intercepts
Intercepted(prim) == prim \in {"pthread_mutex_lock", "malloc", "free", "pthread_mutex_unlock"}

\* mutant: every context counts as real-time
RealtimeContextAlways(stk) == TRUE
\* the call stack is rooted in a non-blocking function
RealtimeContext(stk) == \E i \in 1..Len(stk) : Nonblocking(stk[i])

\* mutant: the attributes act without the checker
ChecksAlways(instr, stk) == RealtimeContext(stk)
\* a violation is raised by the instrumented build only
Checks(instr, stk) == instr /\ RealtimeContext(stk)

\* mutant: the checker never halts
HaltsNever(halt) == FALSE
\* halt_on_error: the process ends at the first violation
Halts(halt) == halt

\* the exit code of a halted process
HaltExit == "43"

\* a diagnostic: its class, the offending frame, and the callers
Diagnostic(kind, what, stk) == [kind |-> kind, what |-> what, stack |-> stk]

\* ------------------------------------------------ the modem demo: the DTE

\* std::recursive_mutex::lock by the only thread
Lock(l) == [l EXCEPT !.held = @ + 1, !.locks = @ + 1]

\* mutant: the guard's destructor releases nothing
UnlockNothing(l) == l
\* std::recursive_mutex::unlock
Unlock(l) == [l EXCEPT !.held = @ - 1, !.unlocks = @ + 1]

Top(stk) == stk[Len(stk)]

\* the functions of SimpleDTE
DteFrames ==
    {"sync", "get_signal_quality", "get_imsi", "generic_command", "generic_get_string",
     "generic_command_with_parse", "command"}

\* the stack of the caller of the DTE
CallerOf(stk) == SelectSeq(stk, LAMBDA f : f \notin DteFrames)

\* command() stands at p
InCommand(p) ==
    /\ rt_exit = "running"
    /\ stack # << >> /\ Top(stack) = "command"
    /\ rt_pc = p

\* The checker's hook in front of a step of the program: with the checker
\* on and the stack rooted in a non-blocking function a flagged step is
\* reported, and the process then ends (halt_on_error) or takes the step.
Checked(kind, what, flagged, Effect) ==
    LET hit == flagged /\ Checks(instrumented, stack)
    IN  /\ diag' = IF hit THEN Append(diag, Diagnostic(kind, what, stack)) ELSE diag
        /\ IF hit /\ Halts(halt_on_error)
           THEN /\ rt_exit' = HaltExit
                /\ rt_pc' = "dead"
                /\ UNCHANGED <<stack, resume, g_dte, atomics, frames, call, lock, heap,
                               rt_out, ncalls>>
           ELSE /\ Effect
                /\ UNCHANGED rt_exit
        /\ UNCHANGED <<victim, build>>

\* entry of command(), which is [[clang::blocking]]
Cmd_Enter ==
    /\ InCommand("enter")
    /\ Checked("blocking-call", "command", Blocking("command"),
               /\ rt_pc' = "lock"
               /\ UNCHANGED <<stack, resume, g_dte, atomics, frames, call, lock, heap,
                              rt_out, ncalls>>)

\* Scoped<Lock> l(internal_lock_)
Cmd_Lock ==
    /\ InCommand("lock")
    /\ Checked("unsafe-library-call", "pthread_mutex_lock", Intercepted("pthread_mutex_lock"),
               /\ internal_lock_' = Lock(internal_lock_)
               /\ rt_pc' = "process"
               /\ UNCHANGED <<stack, resume, g_dte, atomics, frames, call, heap,
                              rt_out, ncalls>>)

\* std::string response = modem_.process(cmd)
Cmd_Process ==
    /\ InCommand("process")
    /\ Checked("unsafe-library-call", "malloc", Intercepted("malloc"),
               /\ response' = Process(request.cmd)
               /\ mallocs' = mallocs + 1
               /\ rt_pc' = "got_line"
               /\ UNCHANGED <<stack, resume, g_dte, atomics, frames, request, result, results,
                              lock, frees, rt_out, ncalls>>)

\* if (got_line) return got_line(...); return command_result::TIMEOUT;
\* the lambdas write to the rssi, ber and imsi of the DTE's caller
Cmd_GotLine ==
    /\ InCommand("got_line")
    /\ result' = GotLine(request.got_line, response)
    /\ IF Top(CallerOf(stack)) = "rt_timer_callback_unsafe"
       THEN /\ cb' = Captured(request.got_line, response, cb)
            /\ UNCHANGED locals
       ELSE /\ locals' = Captured(request.got_line, response, locals)
            /\ UNCHANGED cb
    /\ rt_pc' = "free"
    /\ UNCHANGED <<victim, build, stack, resume, g_dte, atomics, seen, request, response,
                   results, lock, heap, diag, rt_out, rt_exit, ncalls>>

\* the destructor of response
Cmd_Free ==
    /\ InCommand("free")
    /\ Checked("unsafe-library-call", "free", Intercepted("free"),
               /\ response' = << >>
               /\ frees' = frees + 1
               /\ rt_pc' = "unlock"
               /\ UNCHANGED <<stack, resume, g_dte, atomics, frames, request, result, results,
                              lock, mallocs, rt_out, ncalls>>)

\* the destructor of l
Cmd_Unlock ==
    /\ InCommand("unlock")
    /\ Checked("unsafe-library-call", "pthread_mutex_unlock",
               Intercepted("pthread_mutex_unlock"),
               /\ internal_lock_' = Unlock(internal_lock_)
               /\ rt_pc' = "ret"
               /\ UNCHANGED <<stack, resume, g_dte, atomics, frames, call, heap,
                              rt_out, ncalls>>)

\* command() and the functions that called it return the result
Cmd_Return ==
    /\ InCommand("ret")
    /\ stack' = CallerOf(stack)
    /\ results' = Append(results, result)
    /\ rt_pc' = resume
    /\ resume' = "none"
    /\ UNCHANGED <<victim, build, g_dte, atomics, frames, request, response, result, lock,
                   heap, diag, rt_out, rt_exit, ncalls>>

\* a call into the DTE that ends in command(c, kind, 1000)
DteCall(fs, c, kind, back) ==
    /\ stack' = stack \o fs
    /\ request' = [cmd |-> c, got_line |-> kind]
    /\ rt_pc' = "enter"
    /\ resume' = back

\* "AT\r", "AT+CSQ\r", "AT+CIMI\r"
CmdAt == <<"AT", "<CR>">>
CmdCsq == <<"AT+CSQ", "<CR>">>
CmdCimi == <<"AT+CIMI", "<CR>">>
\* the IMEI query that SimModem knows and no DTE function sends
CmdCgsn == <<"AT+CGSN", "<CR>">>

\* dte.sync()
Sync(back) == DteCall(<<"sync", "generic_command", "command">>, CmdAt, "generic_command", back)
\* dte.get_signal_quality(rssi, ber)
GetSignalQuality(back) ==
    DteCall(<<"get_signal_quality", "generic_command_with_parse", "command">>, CmdCsq,
            "generic_command_with_parse", back)
\* dte.get_imsi(imsi)
GetImsi(back) ==
    DteCall(<<"get_imsi", "generic_get_string", "command">>, CmdCimi, "generic_get_string", back)

\* ---------------------------------------------------- the modem demo: main

\* main stands at p
InMain(p) ==
    /\ driver = "main" /\ rt_exit = "running"
    /\ stack = <<"main">>
    /\ rt_pc = p

\* the banner; SimpleDTE dte; g_dte = &dte;
M_Start ==
    /\ driver = "main" /\ rt_exit = "running"
    /\ stack = << >> /\ rt_pc = "start"
    /\ stack' = <<"main">>
    /\ rt_out' = rt_out \o <<"banner">>
    /\ g_dte' = "dte"
    /\ rt_pc' = "sync"
    /\ UNCHANGED <<victim, build, resume, atomics, frames, call, lock, heap, diag, rt_exit,
                   ncalls>>

\* printf("[task] Sending AT sync command...\n"); r = dte.sync();
M_Sync ==
    /\ InMain("sync")
    /\ rt_out' = rt_out \o <<"[task] Sending AT sync command...">>
    /\ Sync("sync_done")
    /\ UNCHANGED <<victim, build, g_dte, atomics, frames, response, result, results, lock,
                   heap, diag, rt_exit, ncalls>>

\* printf("[task] AT sync: %s\n\n", result_str(r)); int rssi = 0, ber = 0;
M_SyncDone ==
    /\ InMain("sync_done")
    /\ locals' = [locals EXCEPT !.r = result, !.rssi = 0, !.ber = 0]
    /\ rt_out' = rt_out \o <<"[task] AT sync">>
    /\ rt_pc' = "csq"
    /\ UNCHANGED <<victim, build, stack, resume, g_dte, atomics, cb, seen, call, lock, heap,
                   diag, rt_exit, ncalls>>

\* printf("[task] Querying signal quality (AT+CSQ)...\n");
\* r = dte.get_signal_quality(rssi, ber);
M_Csq ==
    /\ InMain("csq")
    /\ rt_out' = rt_out \o <<"[task] Querying signal quality (AT+CSQ)...">>
    /\ GetSignalQuality("csq_done")
    /\ UNCHANGED <<victim, build, g_dte, atomics, frames, response, result, results, lock,
                   heap, diag, rt_exit, ncalls>>

\* printf("[task] Signal quality: ..."); std::string imsi;
M_CsqDone ==
    /\ InMain("csq_done")
    /\ locals' = [locals EXCEPT !.r = result, !.imsi = << >>]
    /\ rt_out' = rt_out \o <<"[task] Signal quality">>
    /\ rt_pc' = "imsi"
    /\ UNCHANGED <<victim, build, stack, resume, g_dte, atomics, cb, seen, call, lock, heap,
                   diag, rt_exit, ncalls>>

\* printf("[task] Reading IMSI (AT+CIMI)...\n"); r = dte.get_imsi(imsi);
M_Imsi ==
    /\ InMain("imsi")
    /\ rt_out' = rt_out \o <<"[task] Reading IMSI (AT+CIMI)...">>
    /\ GetImsi("imsi_done")
    /\ UNCHANGED <<victim, build, g_dte, atomics, frames, response, result, results, lock,
                   heap, diag, rt_exit, ncalls>>

\* printf("[task] IMSI: %s  (%s)\n\n", ...);
M_ImsiDone ==
    /\ InMain("imsi_done")
    /\ locals' = [locals EXCEPT !.r = result]
    /\ rt_out' = rt_out \o <<"[task] IMSI">>
    /\ rt_pc' = "cache"
    /\ UNCHANGED <<victim, build, stack, resume, g_dte, atomics, cb, seen, call, lock, heap,
                   diag, rt_exit, ncalls>>

\* g_cached_rssi.store(rssi); g_cached_ber.store(ber);
\* printf("[rt]   Safe timer callback (reads cached atomic)...\n");
M_Cache ==
    /\ InMain("cache")
    /\ g_cached_rssi' = locals.rssi
    /\ g_cached_ber' = locals.ber
    /\ rt_out' = rt_out \o <<"[rt]   Safe timer callback (reads cached atomic)...">>
    /\ rt_pc' = "safe"
    /\ UNCHANGED <<victim, build, stack, resume, g_dte, frames, call, lock, heap, diag,
                   rt_exit, ncalls>>

\* rt_timer_callback_safe();
M_CallSafe ==
    /\ InMain("safe")
    /\ stack' = stack \o <<"rt_timer_callback_safe">>
    /\ rt_pc' = "load"
    /\ UNCHANGED <<victim, build, resume, g_dte, atomics, frames, call, lock, heap, diag,
                   rt_out, rt_exit, ncalls>>

\* mutant: the load returns a stale zero
LoadStale(a) == 0
\* std::atomic<int>::load
Load(a) == a

\* int rssi = g_cached_rssi.load(...); int ber = g_cached_ber.load(...);
Safe_Load ==
    /\ rt_exit = "running"
    /\ stack # << >> /\ Top(stack) = "rt_timer_callback_safe" /\ rt_pc = "load"
    /\ seen' = [rssi |-> Load(g_cached_rssi), ber |-> Load(g_cached_ber)]
    /\ rt_pc' = "ret"
    /\ UNCHANGED <<victim, build, stack, resume, g_dte, atomics, locals, cb, call, lock, heap,
                   diag, rt_out, rt_exit, ncalls>>

\* rt_timer_callback_safe returns
Safe_Return ==
    /\ rt_exit = "running"
    /\ stack # << >> /\ Top(stack) = "rt_timer_callback_safe" /\ rt_pc = "ret"
    /\ stack' = SubSeq(stack, 1, Len(stack) - 1)
    /\ rt_pc' = "safe_done"
    /\ UNCHANGED <<victim, build, resume, g_dte, atomics, frames, call, lock, heap, diag,
                   rt_out, rt_exit, ncalls>>

\* printf("[rt]   OK -- no RTSan violation\n\n") and the two lines that
\* announce the unsafe callback
M_SafeDone ==
    /\ InMain("safe_done")
    /\ rt_out' = rt_out \o <<"[rt]   OK -- no RTSan violation",
                             "[rt]   Unsafe timer callback (calls AT+CSQ from RT context)...",
                             "[rt]   RTSan should report a violation here:">>
    /\ rt_pc' = "unsafe"
    /\ UNCHANGED <<victim, build, stack, resume, g_dte, atomics, frames, call, lock, heap,
                   diag, rt_exit, ncalls>>

\* rt_timer_callback_unsafe(); int rssi = 0, ber = 0;
M_CallUnsafe ==
    /\ InMain("unsafe")
    /\ stack' = stack \o <<"rt_timer_callback_unsafe">>
    /\ cb' = [rssi |-> 0, ber |-> 0]
    /\ rt_pc' = "query"
    /\ UNCHANGED <<victim, build, resume, g_dte, atomics, locals, seen, call, lock, heap,
                   diag, rt_out, rt_exit, ncalls>>

\* g_dte->get_signal_quality(rssi, ber);
Unsafe_Query ==
    /\ rt_exit = "running"
    /\ stack # << >> /\ Top(stack) = "rt_timer_callback_unsafe" /\ rt_pc = "query"
    /\ g_dte = "dte"
    /\ GetSignalQuality("store")
    /\ UNCHANGED <<victim, build, g_dte, atomics, frames, response, result, results, lock,
                   heap, diag, rt_out, rt_exit, ncalls>>

\* g_cached_rssi.store(rssi); g_cached_ber.store(ber);
Unsafe_Store ==
    /\ rt_exit = "running"
    /\ stack # << >> /\ Top(stack) = "rt_timer_callback_unsafe" /\ rt_pc = "store"
    /\ g_cached_rssi' = cb.rssi
    /\ g_cached_ber' = cb.ber
    /\ rt_pc' = "ret"
    /\ UNCHANGED <<victim, build, stack, resume, g_dte, frames, call, lock, heap, diag,
                   rt_out, rt_exit, ncalls>>

\* rt_timer_callback_unsafe returns
Unsafe_Return ==
    /\ rt_exit = "running"
    /\ stack # << >> /\ Top(stack) = "rt_timer_callback_unsafe" /\ rt_pc = "ret"
    /\ stack' = SubSeq(stack, 1, Len(stack) - 1)
    /\ rt_pc' = "unsafe_done"
    /\ UNCHANGED <<victim, build, resume, g_dte, atomics, frames, call, lock, heap, diag,
                   rt_out, rt_exit, ncalls>>

\* printf("\n[rt]   (unreachable with RTSan -- if you see this, RTSan is off)\n");
M_Unreachable ==
    /\ InMain("unsafe_done")
    /\ rt_out' = rt_out \o <<"[rt]   (unreachable with RTSan -- if you see this, RTSan is off)">>
    /\ rt_pc' = "reset"
    /\ UNCHANGED <<victim, build, stack, resume, g_dte, atomics, frames, call, lock, heap,
                   diag, rt_exit, ncalls>>

\* g_dte = nullptr;
M_Reset ==
    /\ InMain("reset")
    /\ g_dte' = "nullptr"
    /\ rt_pc' = "return"
    /\ UNCHANGED <<victim, build, stack, resume, atomics, frames, call, lock, heap, diag,
                   rt_out, rt_exit, ncalls>>

\* return 0;
M_Return ==
    /\ InMain("return")
    /\ stack' = << >>
    /\ rt_exit' = "0"
    /\ rt_pc' = "done"
    /\ UNCHANGED <<victim, build, resume, g_dte, atomics, frames, call, lock, heap, diag,
                   rt_out, ncalls>>

\* no victim runs beside the modem demo
VictimIdle ==
    /\ prog = "none"
    /\ cfi = FALSE
    /\ argc = 1 /\ argv1 = ""
    /\ tty = FALSE
    /\ atk = [offset |-> 0, addr |-> 0, width |-> PtrSize, trail |-> 0, cut |-> 0]
    /\ generated = << >>
    /\ stdin = << >>
    /\ supplied = FALSE
    /\ mem = [i \in 1..MemSize |-> Uninit]
    /\ cmd = Indeterminate
    /\ pc = "init"
    /\ obuf = << >>
    /\ out = << >>
    /\ nread = 0
    /\ reads = 0
    /\ inits = 0
    /\ calls = 0
    /\ slotAtCall = Indeterminate
    /\ callArg = Indeterminate
    /\ executed = << >>
    /\ outcome = "none"
    /\ exit = "running"
    /\ coro = [h \in 1..3 |-> "absent"]
    /\ continuation = [h \in 1..3 |-> 0]
    /\ destroyed = [h \in 1..3 |-> 0]

\* esp_modem_rtsan, built with or without -fsanitize=realtime and run with
\* either setting of halt_on_error
InitRt ==
    /\ VictimIdle
    /\ driver = "main"
    /\ instrumented \in BOOLEAN
    /\ halt_on_error \in BOOLEAN
    /\ ModemStart

NextRt ==
    \/ M_Start \/ M_Sync \/ M_SyncDone \/ M_Csq \/ M_CsqDone \/ M_Imsi \/ M_ImsiDone
    \/ M_Cache \/ M_CallSafe \/ Safe_Load \/ Safe_Return \/ M_SafeDone
    \/ M_CallUnsafe \/ Unsafe_Query \/ Unsafe_Store \/ Unsafe_Return
    \/ M_Unreachable \/ M_Reset \/ M_Return
    \/ Cmd_Enter \/ Cmd_Lock \/ Cmd_Process \/ Cmd_GotLine \/ Cmd_Free \/ Cmd_Unlock
    \/ Cmd_Return

SpecRt == InitRt /\ [][NextRt]_vars

\* main is the only thread and no step of it waits: it keeps running until
\* it returns or the checker ends the process
FairSpecRt == InitRt /\ [][NextRt]_vars /\ WF_vars(NextRt)

\* ------------------------------------------- the DTE under any task caller

\* calls a task makes before it stops
MaxCalls == 3

\* the task stands between two calls
Idle ==
    /\ driver = "task" /\ rt_exit = "running"
    /\ stack = <<"task">> /\ rt_pc = "idle"
    /\ ncalls < MaxCalls
    /\ ncalls' = ncalls + 1

T_Sync ==
    /\ Idle
    /\ Sync("idle")
    /\ UNCHANGED <<victim, build, g_dte, atomics, frames, response, result, results, lock,
                   heap, diag, rt_out, rt_exit>>

T_GetSignalQuality ==
    /\ Idle
    /\ GetSignalQuality("idle")
    /\ UNCHANGED <<victim, build, g_dte, atomics, frames, response, result, results, lock,
                   heap, diag, rt_out, rt_exit>>

T_GetImsi ==
    /\ Idle
    /\ GetImsi("idle")
    /\ UNCHANGED <<victim, build, g_dte, atomics, frames, response, result, results, lock,
                   heap, diag, rt_out, rt_exit>>

\* command(cmd, {}, 1000): a call with an empty got_line
T_Command ==
    /\ Idle
    /\ \E c \in {CmdAt, CmdCgsn} : DteCall(<<"command">>, c, "empty", "idle")
    /\ UNCHANGED <<victim, build, g_dte, atomics, frames, response, result, results, lock,
                   heap, diag, rt_out, rt_exit>>

\* a SimpleDTE has been constructed and a task is about to use it
InitDte ==
    /\ VictimIdle
    /\ driver = "task"
    /\ instrumented \in BOOLEAN
    /\ halt_on_error \in BOOLEAN
    /\ stack = <<"task">>
    /\ rt_pc = "idle"
    /\ resume = "none"
    /\ g_dte = "dte"
    /\ g_cached_rssi = 0
    /\ g_cached_ber = 0
    /\ locals = [rssi |-> 0, ber |-> 0, imsi |-> << >>, r |-> "none"]
    /\ cb = [rssi |-> 0, ber |-> 0]
    /\ seen = [rssi |-> 0, ber |-> 0]
    /\ request = [cmd |-> << >>, got_line |-> "empty"]
    /\ response = << >>
    /\ result = "none"
    /\ results = << >>
    /\ internal_lock_ = [held |-> 0, locks |-> 0, unlocks |-> 0]
    /\ mallocs = 0
    /\ frees = 0
    /\ diag = << >>
    /\ rt_out = << >>
    /\ rt_exit = "running"
    /\ ncalls = 0

NextDte ==
    \/ T_Sync \/ T_GetSignalQuality \/ T_GetImsi \/ T_Command
    \/ Cmd_Enter \/ Cmd_Lock \/ Cmd_Process \/ Cmd_GotLine \/ Cmd_Free \/ Cmd_Unlock
    \/ Cmd_Return

SpecDte == InitDte /\ [][NextDte]_vars

\* ================================================================= claims

\* the slot's initial value in victim p, and the pointer to win
LegitPtr(p) == LEBytes(AddrOf(Legit(p)), 8)
WinPtr == LEBytes(AddrOf("win"), 8)
\* the command a victim with a default passes when the Frame is left alone
GivenOrDefault == IF argc > 1 THEN Argv1 ELSE DefaultCmd
\* memory of victim p just before its read: the slot (and, in the coroutine
\* victim, cmd) assigned, nothing else initialised
BeforeRead(p) ==
    [i \in 1..200 |->
        IF 32 < i /\ i <= 40 THEN LegitPtr(p)[i - 32]
        ELSE IF p = "step3" /\ 40 < i /\ i <= 48 THEN GivenOrDefault[i - 40]
        ELSE Uninit]

\* C1: step1 without enforcement, fed 32 filler bytes and the 8-byte
\* little-endian address of win, calls win (not safe) through frame.fn with
\* the command argument, and the process exits with code 0.
C1_Step1PayloadRunsWin ==
    (/\ prog = "step1" /\ ~cfi
     /\ Payload(atk) = [i \in 1..32 |-> 65] \o WinPtr
     /\ calls > 0)
    => /\ executed = <<"win">>
       /\ callArg = GivenOrDefault
       /\ pc \in {"ret", "done"}
       /\ exit = (IF pc = "done" THEN "0" ELSE "running")

C1_Witness ==
    /\ prog = "step1" /\ ~cfi
    /\ Payload(atk) = [i \in 1..32 |-> 65] \o WinPtr
    /\ executed = <<"win">>
    /\ pc = "done" /\ exit = "0"

\* C2: with the function-signature check enabled, a call through a slot
\* that the overflow set to the address of win is not blocked and win runs,
\* in step1 and in the coroutine victim alike.
C2_CfiLetsSameSignaturePass ==
    (/\ cfi /\ prog \in {"step1", "step3"}
     /\ calls > 0
     /\ slotAtCall = WinPtr)
    => /\ outcome = "unintended"
       /\ executed = <<"win">>
       /\ exit # "abort"

C2_Witness ==
    /\ cfi /\ prog = "step3"
    /\ calls > 0 /\ slotAtCall = WinPtr
    /\ executed = <<"win">>
    /\ nread > 32

\* C3: in step0 with the signature check active, a payload that puts the
\* address of win into frame.auth makes the process abort at the call: win
\* never runs and the process does not return 0.
C3_Step0HijackBlocked ==
    (/\ prog = "step0" /\ cfi
     /\ calls > 0
     /\ slotAtCall = WinPtr)
    => /\ outcome = "blocked"
       /\ executed = << >>
       /\ pc = "done"
       /\ exit = "abort"

C3_Witness ==
    /\ prog = "step0" /\ cfi
    /\ calls > 0 /\ slotAtCall = WinPtr
    /\ exit = "abort"

\* C4: every victim does one read of up to 200 bytes into its 32-byte
\* buffer: of an input of n bytes exactly min(n, 200) are stored, from
\* buf[0] on without a gap, also behind the end of buf, and nothing else in
\* memory changes.
C4_ReadOverwritesMinN200 ==
    /\ reads <= 1
    /\ reads = 1 =>
         LET input == Payload(atk)
             before == BeforeRead(prog)
             n == Len(input)
             k == IF n < 200 THEN n ELSE 200
         IN  /\ nread = k
             /\ \A i \in 1..200 :
                  mem[i] = IF i <= k THEN input[i] ELSE before[i]

C4_Witness ==
    /\ reads = 1
    /\ Len(Payload(atk)) > 200
    /\ nread = 200
    /\ mem[200] = Payload(atk)[200]
    /\ stdin # << >>

\* C5: the slot differs from its initial target at the call only if more
\* than 32 bytes were read: after a read of at most 32 bytes the slot is
\* unchanged and the function called is the one assigned at startup.
C5_ShortInputKeepsSlot ==
    /\ (calls > 0 /\ nread <= 32) =>
          /\ slotAtCall = LegitPtr(prog)
          /\ outcome = "intended"
          /\ executed # << >> /\ Head(executed) = Legit(prog)
    /\ (calls > 0 /\ slotAtCall # LegitPtr(prog)) => nread > 32

C5_Witness ==
    /\ calls > 0 /\ nread = 32
    /\ outcome = "intended"
    /\ Head(executed) = Legit(prog)

C6_Order ==
    /\ inits <= 1 /\ reads <= 1 /\ calls <= 1
    /\ reads = 1 => inits = 1
    /\ calls = 1 => reads = 1
    /\ (exit # "running") <=> (pc = "done")
    /\ (pc = "done" /\ (prog # "step3" \/ nread <= 48)) => calls = 1
    /\ exit = "0" => calls = 1

\* ... and as far as a step shows it
C6_Step ==
    /\ reads' > reads => (inits = 1 /\ calls = 0 /\ LoadPtr(mem, 32) = LegitPtr(prog))
    /\ calls' > calls => (reads = 1 /\ slotAtCall' = LoadPtr(mem, 32))
    /\ reads = 1 => mem' = mem
    /\ pc = "done" => UNCHANGED <<mem, inits, reads, calls, exit>>

C7_Original ==
    calls > 0 => callArg = GivenOrDefault

\* C7 (amended): when the read did not reach the storage of the command (at
\* most 40 bytes read), step1 and the coroutine victim pass argv[1] if an
\* argument is given and "echo SAFE" if not; step0 has no default and
\* passes argv[1] as it is: the argument, or a null pointer without one.
C7_ArgumentPassed ==
    (calls > 0 /\ nread <= 40) =>
        callArg = IF argc > 1 THEN Argv1
                  ELSE IF prog = "step0" THEN LEBytes(0, 8) ELSE DefaultCmd

C7_Witness ==
    /\ prog = "step3" /\ argc = 1
    /\ calls > 0 /\ nread = 40
    /\ callArg = DefaultCmd

\* the line with win's address has reached standard output
AddressEmitted == \E i \in 1..Len(out) : out[i] = WinLine

\* C8: each victim has put the address of win on standard output before
\* its read of standard input begins.
C8_AddressBeforeRead ==
    (reads > 0 \/ pc \in {"read", "c3_body"}) => AddressEmitted

\* C9 as stated: the call through the slot ends blocked, succeeded-
\* unintended or succeeded-intended, and in no other way.
C9_Original ==
    calls > 0 => outcome \in {"blocked", "unintended", "intended"}

\* C9 (amended): the call through the slot ends in exactly one of blocked,
\* succeeded-unintended and succeeded-intended when the signature check is
\* active; without it two more outcomes are reachable: control reaches a
\* function whose signature does not match the slot (step0's win), or an
\* address where no function starts (garbage, crash).
C9_Outcomes ==
    calls > 0 =>
        /\ outcome \in {"blocked", "unintended", "intended", "mismatched", "wild"}
        /\ cfi => outcome \in {"blocked", "unintended", "intended"}
        /\ outcome = "blocked" =>
              /\ cfi /\ executed = << >> /\ exit = "abort"
              /\ \/ slotAtCall \notin {LegitPtr(prog), WinPtr}
                 \/ prog = "step0" /\ slotAtCall = WinPtr
        /\ outcome = "intended" =>
              /\ slotAtCall = LegitPtr(prog)
              /\ executed # << >> /\ Head(executed) = Legit(prog)
        /\ outcome = "unintended" =>
              /\ prog # "step0" /\ slotAtCall = WinPtr /\ executed = <<"win">>
        /\ outcome = "mismatched" =>
              /\ prog = "step0" /\ slotAtCall = WinPtr /\ executed = <<"win">>
        /\ outcome = "wild" =>
              /\ slotAtCall \notin {LegitPtr(prog), WinPtr}
              /\ executed = << >> /\ pc = "done"

C9_Witness ==
    /\ calls > 0 /\ ~cfi
    /\ outcome = "wild"
    /\ exit = "fault"

RECURSIVE DecodeLE(_)
\* the number whose little-endian bytes are bs; -1 for one of 2^31 or more
DecodeLE(bs) ==
    IF bs = << >> THEN 0
    ELSE LET hi == DecodeLE(Tail(bs))
         IN  IF hi < 0 \/ hi >= 2^23 THEN 0 - 1 ELSE Head(bs) + 256 * hi

\* C10: for every offset, target address and pointer width 4 or 8 the
\* generator emits offset filler bytes followed by the width-byte
\* little-endian encoding of the address, offset + width bytes in all.
C10_GeneratorOutput ==
    supplied =>
        /\ Len(generated) = atk.offset + atk.width
        /\ \A i \in 1..atk.offset : generated[i] = 65
        /\ DecodeLE(SubSeq(generated, atk.offset + 1, atk.offset + atk.width)) = atk.addr
        /\ \A i \in (atk.offset + 1)..(atk.offset + atk.width) : generated[i] \in 0..255

C10_Witness ==
    /\ supplied
    /\ atk.width = 4 /\ atk.offset = 31
    /\ atk.addr = AddrOf("win")
    /\ Len(generated) = 35

\* ------------------------------------------------- claims on the modem demo

UnreachableLine == "[rt]   (unreachable with RTSan -- if you see this, RTSan is off)"

\* f is on the call stack
OnStack(f) == \E i \in 1..Len(stack) : stack[i] = f

\* the offending frames of the diagnostics, in order
Offenders == [i \in 1..Len(diag) |-> diag[i].what]

\* the stack on which command() runs below rt_timer_callback_unsafe
UnsafeChain ==
    <<"main", "rt_timer_callback_unsafe", "get_signal_quality",
      "generic_command_with_parse", "command">>

\* C11: with the checker active and halt_on_error set, the first violation
\* inside rt_timer_callback_unsafe ends the process: there is never a
\* second diagnostic, the process that reported one is dead with a non-zero
\* exit code, and the 'unreachable' print, g_dte = nullptr and return 0 are
\* never executed.
C11_FirstViolationTerminates ==
    (instrumented /\ halt_on_error) =>
        /\ Len(diag) <= 1
        /\ diag # << >> =>
              /\ rt_exit \notin {"running", "0"}
              /\ OnStack("rt_timer_callback_unsafe")
        /\ \A i \in 1..Len(rt_out) : rt_out[i] # UnreachableLine
        /\ stack # << >> => g_dte = "dte"
        /\ rt_exit # "0"
        /\ rt_pc \notin {"store", "unsafe_done", "reset", "return", "done"}

C11_Witness ==
    /\ instrumented /\ halt_on_error
    /\ Len(diag) = 1
    /\ rt_exit = "43"
    /\ g_dte = "dte"
    /\ Len(results) = 3

\* C12 as stated: with halt_on_error set, the diagnostic reported for
\* rt_timer_callback_unsafe has the lock acquisition as its first offending
\* frame.
C12_Original ==
    (instrumented /\ halt_on_error /\ diag # << >>) =>
        diag[1].what = "pthread_mutex_lock"

\* C12: with halt_on_error set, the diagnostic reported for
\* rt_timer_callback_unsafe is a blocking-call whose first offending frame
\* is command(), reached through rt_timer_callback_unsafe ->
\* get_signal_quality -> generic_command_with_parse -> command; the process
\* ends before that call of command() acquires the lock.
C12_FirstFrameIsCommand ==
    (instrumented /\ halt_on_error /\ diag # << >>) =>
        /\ diag = <<[kind |-> "blocking-call", what |-> "command", stack |-> UnsafeChain]>>
        /\ internal_lock_.held = 0
        /\ internal_lock_.locks = 3
        /\ internal_lock_.unlocks = 3

C12_Witness ==
    /\ instrumented /\ halt_on_error
    /\ diag # << >>
    /\ diag[1].what = "command"
    /\ rt_pc = "dead"
    /\ stack = UnsafeChain

\* the five primitives of the chain, in program order
FiveOffenders == <<"command", "pthread_mutex_lock", "malloc", "free", "pthread_mutex_unlock">>

\* the statements of main after rt_timer_callback_unsafe() are under way
AfterUnsafe == rt_pc \in {"unsafe_done", "reset", "return", "done"}

C13_Diagnostics ==
    (instrumented /\ ~halt_on_error) =>
        /\ Len(diag) <= 5
        /\ \A i \in 1..Len(diag) :
              /\ diag[i].what = FiveOffenders[i]
              /\ diag[i].kind = IF i = 1 THEN "blocking-call" ELSE "unsafe-library-call"
        /\ (rt_pc \in {"store", "ret"} /\ OnStack("rt_timer_callback_unsafe")) => Len(diag) = 5
        /\ AfterUnsafe => Len(diag) = 5
        /\ rt_exit \in {"running", "0"}

\* C13: with halt_on_error disabled, one execution of
\* rt_timer_callback_unsafe yields exactly five diagnostics, for the
\* blocking call of command(), the mutex lock, the allocation, the free and
\* the mutex unlock, in that order, and the process then runs to its end
\* with exit code 0.
C13_FiveThenExitZero ==
    /\ [](C13_Diagnostics)
    /\ (instrumented /\ ~halt_on_error) => <>(rt_exit = "0" /\ Len(diag) = 5)

C13_Witness ==
    /\ instrumented /\ ~halt_on_error
    /\ Offenders = <<"command", "pthread_mutex_lock", "malloc", "free", "pthread_mutex_unlock">>
    /\ rt_exit = "0"

\* C14: a violation is reported only below a non-blocking function: the
\* three commands of main and rt_timer_callback_safe raise none (all three
\* results are in and the safe callback has run before the first
\* diagnostic), every diagnostic carries a stack with
\* rt_timer_callback_unsafe on it, and command() entered from
\* rt_timer_callback_unsafe does raise one under the checker.
C14_OnlyInNonblockingContext ==
    /\ \A i \in 1..Len(diag) :
          \E j \in 1..Len(diag[i].stack) : diag[i].stack[j] = "rt_timer_callback_unsafe"
    /\ diag # << >> =>
          /\ instrumented
          /\ Len(results) >= 3
          /\ SubSeq(results, 1, 3) = <<"OK", "OK", "OK">>
          /\ \E i \in 1..Len(rt_out) : rt_out[i] = "[rt]   OK -- no RTSan violation"
    /\ ~OnStack("rt_timer_callback_unsafe") /\ ~AfterUnsafe /\ rt_pc # "dead" => diag = << >>
    /\ (instrumented /\ OnStack("rt_timer_callback_unsafe") /\ OnStack("command")
            /\ rt_pc # "enter")
          => diag # << >> /\ diag[1].stack[Len(diag[1].stack)] = "command"

C14_Witness ==
    /\ instrumented
    /\ diag # << >>
    /\ OnStack("rt_timer_callback_unsafe")
    /\ results = <<"OK", "OK", "OK">>
    /\ internal_lock_.locks >= 3

\* what a finished run of the demo leaves behind
C15_Completed ==
    /\ results = <<"OK", "OK", "OK", "OK">>
    /\ g_cached_rssi = 18 /\ g_cached_ber = 99
    /\ locals = [rssi |-> 18, ber |-> 99, imsi |-> <<"310260000000000">>, r |-> "OK"]
    /\ g_dte = "nullptr"
    /\ rt_out[Len(rt_out)] = UnreachableLine
    /\ Len(rt_out) = 12

C15_Safety ==
    /\ ~instrumented => diag = << >> /\ rt_exit \in {"running", "0"}
    /\ rt_exit = "0" => C15_Completed

\* C15: the attributes do nothing without the checker: the build without
\* it raises no diagnostic, runs all three steps, prints the final line,
\* resets g_dte and exits 0, and every run that exits 0, with the checker
\* (continuing past violations) or without it, ends with the same command
\* results and the same cached rssi and ber.
C15_AttributesAdvisory ==
    /\ [](C15_Safety)
    /\ ~instrumented => <>(rt_exit = "0")
    /\ (instrumented /\ ~halt_on_error) => <>(rt_exit = "0")

C15_Witness ==
    /\ ~instrumented
    /\ rt_exit = "0"
    /\ results = <<"OK", "OK", "OK", "OK">>
    /\ g_cached_rssi = 18

C16_Inv ==
    /\ OnStack("rt_timer_callback_safe") =>
          /\ ~OnStack("rt_timer_callback_unsafe")
          /\ stack = <<"main", "rt_timer_callback_safe">>
          /\ internal_lock_.held = 0
    /\ OnStack("rt_timer_callback_unsafe") =>
          /\ ~OnStack("rt_timer_callback_safe")
          /\ seen = [rssi |-> 18, ber |-> 99]
          /\ \E i \in 1..Len(rt_out) : rt_out[i] = "[rt]   OK -- no RTSan violation"
    /\ rt_pc = "safe_done" =>
          /\ seen = [rssi |-> g_cached_rssi, ber |-> g_cached_ber]
          /\ g_cached_rssi = 18 /\ g_cached_ber = 99

C16_Step ==
    OnStack("rt_timer_callback_safe") =>
        /\ g_cached_rssi' = g_cached_rssi
        /\ g_cached_ber' = g_cached_ber
        /\ internal_lock_' = internal_lock_
        /\ mallocs' = mallocs /\ frees' = frees
        /\ diag' = diag
        /\ ~OnStack("command")

\* C16: rt_timer_callback_safe only reads the two atomics: no step of it
\* changes g_cached_rssi, g_cached_ber, the lock or the heap, what it read
\* is what they hold when it returns, and it has returned before
\* rt_timer_callback_unsafe is on the stack.
C16_SafeCallbackReadsOnly == [](C16_Inv) /\ [][C16_Step]_vars

C16_Witness ==
    /\ rt_pc = "safe_done"
    /\ seen = [rssi |-> 18, ber |-> 99]
    /\ g_cached_rssi = 18 /\ g_cached_ber = 99
    /\ internal_lock_.locks = 3

\* ------------------------------------------- claims on layout and the chain

\* the Frame has been filled in by main and not yet read into
Fresh == prog \in {"step0", "step1", "step3"} /\ inits = 1 /\ reads = 0

\* C17: in every Frame the slot lies at offset 32, right behind the 32-byte
\* buf with no padding, so a payload of 32 filler bytes and an 8-byte
\* address puts the address into the slot; in the coroutine Frame cmd lies
\* at offset 40 and the Frame ends at 48, for step1 and step0 at 40.
C17_LayoutOffsets ==
    /\ Fresh =>
          /\ \A i \in 1..32 : mem[i] = 0 - 1
          /\ SubSeq(mem, 33, 40) = LegitPtr(prog)
          /\ prog = "step3" => SubSeq(mem, 41, 48) = GivenOrDefault
          /\ \A i \in (IF prog = "step3" THEN 49 ELSE 41)..200 : mem[i] = 0 - 1
    /\ (calls = 1 /\ atk.offset = 32 /\ atk.width = 8 /\ atk.cut = 0) =>
          slotAtCall = LEBytes(atk.addr, 8)
    /\ (calls = 1 /\ prog = "step3" /\ nread = 48 /\ atk.offset = 32 /\ atk.width = 8) =>
          callArg = LEBytes(4210752, 8)

C17_Witness ==
    /\ prog = "step3" /\ argc = 2
    /\ calls = 1 /\ nread = 48
    /\ atk.offset = 32 /\ atk.width = 8
    /\ slotAtCall = WinPtr
    /\ SubSeq(mem, 41, 48) = LEBytes(4210752, 8)

\* the bytes the exploit put on standard input
Sent == Payload(atk)

\* C18: in the coroutine victim the bytes of a payload beyond the 40th
\* overwrite frame->cmd, so the function called through frame->resume gets
\* the attacker's bytes as cmd (all 8 of them from 48 bytes on) in place of
\* argv[1] or the default; a payload of at most 40 bytes leaves frame->cmd
\* as main set it.
C18_CmdOverwritten ==
    (prog = "step3" /\ calls = 1) =>
        LET sent == Sent
            n == IF Len(sent) < 200 THEN Len(sent) ELSE 200
        IN  /\ nread = n
            /\ n <= 40 => callArg = GivenOrDefault
            /\ n > 40 =>
                  /\ \A i \in 1..8 :
                        callArg[i] = IF 40 + i <= n THEN sent[40 + i] ELSE GivenOrDefault[i]
                  /\ callArg # GivenOrDefault
            /\ n >= 48 => callArg = SubSeq(sent, 41, 48)
            /\ callArg = SubSeq(mem, 41, 48)

C18_Witness ==
    /\ prog = "step3" /\ calls = 1
    /\ argc = 2
    /\ nread = 48
    /\ executed = <<"win">>
    /\ callArg = LEBytes(4210752, 8)
    /\ callArg # Argv1

\* main has control again after chain.start()
BackInMain == pc \in {"call", "free", "ret"}

\* the chain's part of the program
InChain == pc \in {"c1_body", "c2_body", "c3_body", "c3_final", "c2_resume", "c1_resume"}

C19_Inv ==
    prog = "step3" =>
        /\ reads <= 1 /\ calls <= 1
        /\ calls = 1 => reads = 1
        /\ \A h \in 1..3 : destroyed[h] <= 1
        /\ TaskDtor(destroyed, 0) = destroyed
        /\ pc \in {"c3_body", "c3_final"} =>
              /\ continuation = <<0, 1, 2>>
              /\ coro = <<"awaiting", "awaiting", "running">>
        /\ (BackInMain \/ calls = 1) =>
              /\ reads = 1
              /\ coro[2] = "destroyed" /\ coro[3] = "destroyed"
              /\ destroyed[2] = 1 /\ destroyed[3] = 1
        /\ BackInMain => (coro[1] = "final" /\ destroyed[1] = 0)
        /\ (exit = "0" /\ executed # << >>) =>
              /\ destroyed = <<1, 1, 1>>
              /\ coro = <<"destroyed", "destroyed", "destroyed">>

C19_Step ==
    (prog = "step3" /\ pc' # pc) =>
        /\ pc = "start" => pc' = "c1_body"
        /\ pc = "c1_body" => pc' = "c2_body"
        /\ pc = "c2_body" => pc' = "c3_body"
        /\ pc = "c3_body" => (pc' = "c3_final" /\ reads' = reads + 1 /\ calls = 0)
        /\ pc = "c3_final" => pc' \in {"c2_resume", "done"}
        /\ pc = "c2_resume" => pc' \in {"c1_resume", "done"}
        /\ pc = "c1_resume" => pc' \in {"call", "done"}
        /\ (InChain /\ pc' = "done") => (nread > 48 /\ exit' = "fault")
        /\ calls' > calls => (pc = "call" /\ reads = 1)

InBody == OnStack("command") /\ rt_pc \in {"process", "got_line", "free", "unlock"}

\* C20: command() holds internal_lock_ from the construction of its guard
\* to the end of its body and releases it on both return paths: while the
\* body runs the lock is held once, and whenever a command has returned
\* (with the result of got_line, or TIMEOUT for an empty got_line) the lock
\* is free and has been released as often as it was acquired, once per
\* command, after any sequence of sync, get_signal_quality, get_imsi and
\* bare command() calls.
C20_LockBalanced ==
    /\ InBody =>
          /\ internal_lock_.held = 1
          /\ internal_lock_.locks = internal_lock_.unlocks + 1
    /\ ~InBody =>
          /\ internal_lock_.held = 0
          /\ internal_lock_.locks = internal_lock_.unlocks
    /\ rt_pc = "idle" =>
          /\ internal_lock_.unlocks = Len(results)
          /\ internal_lock_.locks = ncalls
    /\ \A i \in 1..Len(results) : results[i] \in {"OK", "TIMEOUT"}
    /\ (OnStack("command") /\ rt_pc = "ret") =>
          result = IF request.got_line = "empty" THEN "TIMEOUT" ELSE "OK"

C20_Witness ==
    /\ driver = "task" /\ rt_pc = "idle"
    /\ Len(results) = 2
    /\ results[1] = "TIMEOUT" /\ results[2] = "OK"
    /\ internal_lock_ = [held |-> 0, locks |-> 2, unlocks |-> 2]

====
